---- MODULE Spec2Model ----
(***************************************************************************)
(* Model of calculation_template.ipynb: the MPS safety-limit calculation.  *)
(* A run executes the notebook's code cells in order, one statement at a   *)
(* time; an exception (KeyError) stops the run at the failing statement.   *)
(*                                                                         *)
(* Numbers are IEEE-754 doubles in the code.  They are modelled as exact   *)
(* rationals n/d (d > 0) together with the special values +inf, -inf and   *)
(* NaN that numpy produces silently on division by zero; rounding is       *)
(* numpy's round-half-to-even on the scaled value.  The binary rounding    *)
(* error of the doubles (1 - 0.83 = 0.17000000000000004) is not modelled.  *)
(* The CSV inputs are non-negative numbers.                                *)
(***************************************************************************)
EXTENDS Integers, Sequences, FiniteSets

VARIABLES max_reqs, max_pulse, min_attenuation, max_pulse_rate,
          pc, col, filename_prefix, files

vars == <<max_reqs, max_pulse, min_attenuation, max_pulse_rate,
          pc, col, filename_prefix, files>>

---------------------------------------------------------------------------
(* Bounds and input domains *)

NumRows == 2

Rows == 1..NumRows

\* photon-energy column labels, in file order
ColOrder == <<"8.0", "9.0">>

Energies == {ColOrder[i] : i \in 1..Len(ColOrder)}

\* predicted single-pulse energies (uJ) a beam.csv cell may hold
PulseVals == {0, 11500, 12000, 16000}

\* maximum single-pulse energies (mJ) a requirement cell may hold
ReqVals == {0, 10, 12}

\* maximum integrated power (W) the Power cell may hold
PowerVals == {0, 5}

\* label of the first requirement row, as a sequence of characters
StateName == <<"O", "P", "E", "N", " ", "B", "E", "A", "M">>

---------------------------------------------------------------------------
(* float64 values *)

RECURSIVE GCD(_, _)
GCD(a, b) == IF b = 0 THEN a ELSE GCD(b, a % b)

\* the finite value n/d (d > 0), held in lowest terms
Fin(n, d) ==
  LET g == GCD(IF n < 0 THEN -n ELSE n, d)
  IN [k |-> "fin", n |-> n \div g, d |-> d \div g]

PInf == [k |-> "pinf", n |-> 0, d |-> 1]
NInf == [k |-> "ninf", n |-> 0, d |-> 1]
NaN == [k |-> "nan", n |-> 0, d |-> 1]

IsFin(v) == v.k = "fin"

\* sign of a value that is not NaN: -1, 0 or 1
Sign(v) ==
  CASE v.k = "pinf" -> 1
    [] v.k = "ninf" -> -1
    [] OTHER -> IF v.n > 0 THEN 1 ELSE IF v.n < 0 THEN -1 ELSE 0

Signed(s) == IF s > 0 THEN PInf ELSE NInf

\* a / b on doubles, numpy semantics: no exception, x/0 = +-inf, 0/0 = nan
FloatDiv(a, b) ==
  IF a.k = "nan" \/ b.k = "nan" THEN NaN
  ELSE IF ~IsFin(a) /\ ~IsFin(b) THEN NaN
  ELSE IF ~IsFin(a) THEN Signed(Sign(a) * (IF Sign(b) < 0 THEN -1 ELSE 1))
  ELSE IF ~IsFin(b) THEN Fin(0, 1)
  ELSE IF b.n = 0 THEN (IF a.n = 0 THEN NaN ELSE Signed(Sign(a)))
  ELSE IF b.n > 0 THEN Fin(a.n * b.d, a.d * b.n)
  ELSE Fin(-(a.n * b.d), a.d * (-(b.n)))

\* a - b on doubles
FloatSub(a, b) ==
  IF a.k = "nan" \/ b.k = "nan" THEN NaN
  ELSE IF ~IsFin(a) /\ ~IsFin(b) THEN (IF a.k = b.k THEN NaN ELSE a)
  ELSE IF ~IsFin(a) THEN a
  ELSE IF ~IsFin(b) THEN Signed(-Sign(b))
  ELSE Fin(a.n * b.d - b.n * a.d, a.d * b.d)

\* a > b on doubles: any comparison with NaN is False
FloatGt(a, b) ==
  IF a.k = "nan" \/ b.k = "nan" THEN FALSE
  ELSE IF a.k = "pinf" THEN b.k # "pinf"
  ELSE IF a.k = "ninf" THEN FALSE
  ELSE IF b.k = "pinf" THEN FALSE
  ELSE IF b.k = "ninf" THEN TRUE
  ELSE a.n * b.d > b.n * a.d

\* nearest integer to n/d (d > 0), ties to the even neighbour (numpy rint)
RoundHalfEven(n, d) ==
  LET q == n \div d
      r == n % d
  IN IF 2 * r < d THEN q
     ELSE IF 2 * r > d THEN q + 1
     ELSE IF q % 2 = 0 THEN q ELSE q + 1

Pow10(decimals) == IF decimals = 0 THEN 1 ELSE IF decimals = 1 THEN 10 ELSE 100

\* DataFrame.round(decimals) on one cell: inf and nan pass through unchanged
FloatRound(v, decimals) ==
  IF IsFin(v)
  THEN Fin(RoundHalfEven(v.n * Pow10(decimals), v.d), Pow10(decimals))
  ELSE v

---------------------------------------------------------------------------
(* Table helpers *)

\* the columns of a table, in file order
Columns(df) == SelectSeq(ColOrder, LAMBDA c : c \in DOMAIN df)

\* pd.DataFrame(0., index=max_pulse.index, columns=max_pulse.columns)
EmptyLike(df) == [c \in DOMAIN df |-> [b \in Rows |-> Fin(0, 1)]]

\* where a for-loop over max_pulse.columns goes first: into its body, or past it
EnterLoop(body, after) == IF Len(Columns(max_pulse)) = 0 THEN after ELSE body

\* str.replace(' ', '_')
Replace(s) == [i \in 1..Len(s) |-> IF s[i] = " " THEN "_" ELSE s[i]]

---------------------------------------------------------------------------
(* Cell-wise arithmetic of the two calculation cells *)

\* mutant: the uJ -> mJ conversion of the predicted pulse energy is left out
AllowedTransmission_NoUnitConversion(req, pulse) ==
  FloatDiv(Fin(req, 1), Fin(pulse, 1))

\* max_reqs.loc[state_name][pulse_energy] / (max_pulse[pulse_energy] / 1000.)
AllowedTransmission(req, pulse) ==
  FloatDiv(Fin(req, 1), FloatDiv(Fin(pulse, 1), Fin(1000, 1)))

\* mutant: transmissions above 100% are not clamped
ClampCell_NoClamp(v) == v

\* min_attenuation[min_attenuation > 1.] = 1.
ClampCell(v) == IF FloatGt(v, Fin(1, 1)) THEN Fin(1, 1) ELSE v

\* min_attenuation.round(2)
Round2Cell(v) == FloatRound(v, 2)

\* 1 - min_attenuation
OneMinusCell(v) == FloatSub(Fin(1, 1), v)

\* mutant: the quotient is divided by (1 - min_attenuation), the transmission,
\* instead of having min_attenuation subtracted from it
RateCell_DividesByTransmission(power, pulse, att) ==
  FloatDiv(FloatDiv(Fin(power, 1), FloatDiv(Fin(pulse, 1), Fin(1000000, 1))),
           FloatSub(Fin(1, 1), att))

\* max_reqs.loc[state_name]['Power'] / (max_pulse[pulse_energy] / 1000000.) / 1
\*     - min_attenuation[pulse_energy]
RateCell(power, pulse, att) ==
  FloatSub(FloatDiv(FloatDiv(Fin(power, 1),
                             FloatDiv(Fin(pulse, 1), Fin(1000000, 1))),
                    Fin(1, 1)),
           att)

\* mutant: the rate table is rounded to 2 decimals like the attenuation table
Round0Cell_TwoDecimals(v) == FloatRound(v, 2)

\* max_pulse_rate.round(0)
Round0Cell(v) == FloatRound(v, 0)

---------------------------------------------------------------------------
(* The run *)

\* state after the loading cell: both CSV files read, nothing computed yet;
\* the beam-power table has at least one photon-energy column
Init ==
  /\ \E rc \in SUBSET (Energies \cup {"Power"}) :
       \E vals \in [Energies \cup {"Power"} -> ReqVals \cup PowerVals] :
         /\ \A c \in Energies : vals[c] \in ReqVals
         /\ vals["Power"] \in PowerVals
         /\ max_reqs = [c \in rc |-> vals[c]]
  /\ \E bc \in (SUBSET Energies) \ {{}} : max_pulse \in [bc -> [Rows -> PulseVals]]
  /\ min_attenuation = << >>
  /\ max_pulse_rate = << >>
  /\ pc = "create_att"
  /\ col = 1
  /\ filename_prefix = << >>
  /\ files = {}

CreateAttenuation ==
  /\ pc = "create_att"
  /\ min_attenuation' = EmptyLike(max_pulse)
  /\ pc' = "create_rate"
  /\ UNCHANGED <<max_reqs, max_pulse, max_pulse_rate, col, filename_prefix, files>>

CreateRate ==
  /\ pc = "create_rate"
  /\ max_pulse_rate' = EmptyLike(max_pulse)
  /\ pc' = "plot"
  /\ UNCHANGED <<max_reqs, max_pulse, min_attenuation, col, filename_prefix, files>>

\* energy = max_reqs.drop('Power', axis=1) raises KeyError without a Power column
PlotRequirements ==
  /\ pc = "plot"
  /\ \/ /\ "Power" \notin DOMAIN max_reqs
        /\ pc' = "error"
     \/ /\ "Power" \in DOMAIN max_reqs
        /\ pc' = EnterLoop("att_loop", "clamp")
  /\ col' = 1
  /\ UNCHANGED <<max_reqs, max_pulse, min_attenuation, max_pulse_rate,
                 filename_prefix, files>>

\* mutant: a column the requirement row lacks is skipped instead of raising
AttenuationLoop_SkipMissing ==
  /\ pc = "att_loop"
  /\ LET cols == Columns(max_pulse)
         pulse_energy == cols[col]
     IN /\ min_attenuation' =
             IF pulse_energy \in DOMAIN max_reqs
             THEN [min_attenuation EXCEPT ![pulse_energy] =
                     [b \in Rows |-> AllowedTransmission(max_reqs[pulse_energy],
                                                         max_pulse[pulse_energy][b])]]
             ELSE min_attenuation
        /\ col' = IF col = Len(cols) THEN 1 ELSE col + 1
        /\ pc' = IF col = Len(cols) THEN "clamp" ELSE "att_loop"
  /\ UNCHANGED <<max_reqs, max_pulse, max_pulse_rate, filename_prefix, files>>

\* one iteration of "for pulse_energy in max_pulse.columns" (attenuation cell)
AttenuationLoop ==
  /\ pc = "att_loop"
  /\ LET cols == Columns(max_pulse)
         pulse_energy == cols[col]
     IN \/ /\ pulse_energy \notin DOMAIN max_reqs
           /\ pc' = "error"
           /\ UNCHANGED <<min_attenuation, col>>
        \/ /\ pulse_energy \in DOMAIN max_reqs
           /\ min_attenuation' =
                [min_attenuation EXCEPT ![pulse_energy] =
                   [b \in Rows |-> AllowedTransmission(max_reqs[pulse_energy],
                                                       max_pulse[pulse_energy][b])]]
           /\ col' = IF col = Len(cols) THEN 1 ELSE col + 1
           /\ pc' = IF col = Len(cols) THEN "clamp" ELSE "att_loop"
  /\ UNCHANGED <<max_reqs, max_pulse, max_pulse_rate, filename_prefix, files>>

Clamp ==
  /\ pc = "clamp"
  /\ min_attenuation' = [c \in DOMAIN min_attenuation |->
       [b \in Rows |-> ClampCell(min_attenuation[c][b])]]
  /\ pc' = "round2"
  /\ UNCHANGED <<max_reqs, max_pulse, max_pulse_rate, col, filename_prefix, files>>

Round2 ==
  /\ pc = "round2"
  /\ min_attenuation' = [c \in DOMAIN min_attenuation |->
       [b \in Rows |-> Round2Cell(min_attenuation[c][b])]]
  /\ pc' = "one_minus"
  /\ UNCHANGED <<max_reqs, max_pulse, max_pulse_rate, col, filename_prefix, files>>

OneMinus ==
  /\ pc = "one_minus"
  /\ min_attenuation' = [c \in DOMAIN min_attenuation |->
       [b \in Rows |-> OneMinusCell(min_attenuation[c][b])]]
  /\ pc' = EnterLoop("rate_loop", "round0")
  /\ UNCHANGED <<max_reqs, max_pulse, max_pulse_rate, col, filename_prefix, files>>

\* one iteration of "for pulse_energy in max_pulse.columns" (repetition-rate cell)
RateLoop ==
  /\ pc = "rate_loop"
  /\ LET cols == Columns(max_pulse)
         pulse_energy == cols[col]
     IN /\ max_pulse_rate' =
             [max_pulse_rate EXCEPT ![pulse_energy] =
                [b \in Rows |-> RateCell(max_reqs["Power"],
                                         max_pulse[pulse_energy][b],
                                         min_attenuation[pulse_energy][b])]]
        /\ col' = IF col = Len(cols) THEN 1 ELSE col + 1
        /\ pc' = IF col = Len(cols) THEN "round0" ELSE "rate_loop"
  /\ UNCHANGED <<max_reqs, max_pulse, min_attenuation, filename_prefix, files>>

Round0 ==
  /\ pc = "round0"
  /\ max_pulse_rate' = [c \in DOMAIN max_pulse_rate |->
       [b \in Rows |-> Round0Cell(max_pulse_rate[c][b])]]
  /\ pc' = "prefix"
  /\ UNCHANGED <<max_reqs, max_pulse, min_attenuation, col, filename_prefix, files>>

FilenamePrefix ==
  /\ pc = "prefix"
  /\ filename_prefix' = Replace(StateName)
  /\ pc' = "store_att"
  /\ UNCHANGED <<max_reqs, max_pulse, min_attenuation, max_pulse_rate, col, files>>

StoreAttenuation ==
  /\ pc = "store_att"
  /\ files' = files \cup {<<filename_prefix, "_min_attenuation.csv">>}
  /\ pc' = "store_rate"
  /\ UNCHANGED <<max_reqs, max_pulse, min_attenuation, max_pulse_rate, col,
                 filename_prefix>>

StoreRate ==
  /\ pc = "store_rate"
  /\ files' = files \cup {<<filename_prefix, "_max_rep_rate.csv">>}
  /\ pc' = "done"
  /\ UNCHANGED <<max_reqs, max_pulse, min_attenuation, max_pulse_rate, col,
                 filename_prefix>>

Next ==
  \/ CreateAttenuation
  \/ CreateRate
  \/ PlotRequirements
  \/ AttenuationLoop
  \/ Clamp
  \/ Round2
  \/ OneMinus
  \/ RateLoop
  \/ Round0
  \/ FilenamePrefix
  \/ StoreAttenuation
  \/ StoreRate

Spec == Init /\ [][Next]_vars

---------------------------------------------------------------------------
(* Vocabulary of the properties *)

\* the cells (photon-energy column, bunch-charge row) of the beam-power table
Cells == (DOMAIN max_pulse) \X Rows

\* the attenuation cell has finished: clamp, round(2) and 1 - x have all run
AttenuationDone ==
  pc \in {"rate_loop", "round0", "prefix", "store_att", "store_rate", "done"}

\* the repetition-rate cell has finished: the loop and round(0) have run
RateDone == pc \in {"prefix", "store_att", "store_rate", "done"}

Abs(x) == IF x < 0 THEN -x ELSE x

\* m is the integer nearest to n/d (d > 0), the even one on a tie
NearestEven(m, n, d) ==
  /\ 2 * Abs(m * d - n) <= d
  /\ 2 * Abs(m * d - n) = d => m % 2 = 0

Att(cb) == min_attenuation[cb[1]][cb[2]]
Rate(cb) == max_pulse_rate[cb[1]][cb[2]]
PulseUJ(cb) == max_pulse[cb[1]][cb[2]]
ReqMJ(cb) == max_reqs[cb[1]]

---------------------------------------------------------------------------
(* C1 *)

\* C1: once the attenuation step (clamp, round to 2 decimals, 1 - x) has run,
\* every cell of min_attenuation is a number with 0 <= min_attenuation <= 1.
C1_AttenuationInUnitInterval ==
  AttenuationDone =>
    \A cb \in Cells :
      /\ IsFin(Att(cb))
      /\ 0 <= Att(cb).n
      /\ Att(cb).n <= Att(cb).d

---------------------------------------------------------------------------
(* C2 *)

\* C2: for every cell with predicted pulse energy > 0, the pulse energy that
\* passes the computed minimum attenuation is within the device tolerance:
\* (predicted_uJ / 1000) * (1 - min_attenuation) <= max_pulse_energy_mJ.
C2_TransmittedEnergyWithinTolerance ==
  AttenuationDone =>
    \A cb \in Cells :
      PulseUJ(cb) > 0 =>
        /\ IsFin(Att(cb))
        /\ PulseUJ(cb) * (Att(cb).d - Att(cb).n) <= ReqMJ(cb) * 1000 * Att(cb).d

---------------------------------------------------------------------------
(* C3 *)

\* C3: for every cell with predicted pulse energy > 0, running at max_rep_rate
\* with the minimum attenuation applied keeps the average power within the
\* device's power tolerance:
\* max_rep_rate * (predicted_uJ / 1000000) * (1 - min_attenuation) <= max_power_W.
C3_AveragePowerWithinTolerance ==
  RateDone =>
    \A cb \in Cells :
      PulseUJ(cb) > 0 =>
        /\ IsFin(Rate(cb))
        /\ IsFin(Att(cb))
        /\ Rate(cb).n * PulseUJ(cb) * (Att(cb).d - Att(cb).n)
             <= max_reqs["Power"] * 1000000 * Rate(cb).d * Att(cb).d

---------------------------------------------------------------------------
(* C4 *)

\* C4: for every cell whose predicted pulse energy is 0, whatever the
\* requirement value of its column, min_attenuation is 0 once the attenuation
\* step has run (and the division has raised no error).
C4_ZeroPulseEnergyGivesZeroAttenuation ==
  AttenuationDone =>
    \A cb \in Cells :
      PulseUJ(cb) = 0 => IsFin(Att(cb)) /\ Att(cb).n = 0

---------------------------------------------------------------------------
(* C5 *)

\* C5: for every cell, if the maximum single-pulse energy of its column (mJ) is
\* at least the predicted pulse energy in mJ (predicted_uJ / 1000), then
\* min_attenuation is 0.
C5_ToleranceAtLeastPredictedGivesZeroAttenuation ==
  AttenuationDone =>
    \A cb \in Cells :
      ReqMJ(cb) * 1000 >= PulseUJ(cb) => IsFin(Att(cb)) /\ Att(cb).n = 0

---------------------------------------------------------------------------
(* C6 *)

\* the scenario's inputs: Power 5 W, 10 mJ in column "8.0", and 12000 uJ in
\* column "8.0" of the first bunch-charge row
Scenario ==
  /\ "8.0" \in DOMAIN max_pulse
  /\ {"8.0", "Power"} \subseteq DOMAIN max_reqs
  /\ max_reqs["8.0"] = 10
  /\ max_reqs["Power"] = 5
  /\ max_pulse["8.0"][1] = 12000

\* what the scenario cell holds through the run, given its final rate:
\* transmission 0.83 after rounding, attenuation 0.17 after 1 - x
ScenarioCell(rate) ==
  /\ pc = "one_minus" => min_attenuation["8.0"][1] = Fin(83, 100)
  /\ AttenuationDone =>
       /\ IsFin(Att(<<"8.0", 1>>))
       /\ Att(<<"8.0", 1>>).n * 100 = 17 * Att(<<"8.0", 1>>).d
  /\ RateDone => max_pulse_rate["8.0"][1] = Fin(rate, 1)

---------------------------------------------------------------------------
(* C7 *)

\* the run has got past the attenuation loop without an exception
PastAttenuationLoop ==
  pc \in {"clamp", "round2", "one_minus", "rate_loop", "round0", "prefix",
          "store_att", "store_rate", "done"}

ReqEnergies == DOMAIN max_reqs \ {"Power"}

\* C7 (as claimed): if the two input tables differ in their photon-energy
\* columns, in either direction, the run does not get past the attenuation
\* loop and no output file is written.
C7_MismatchEitherDirectionFails ==
  DOMAIN max_pulse # ReqEnergies => ~PastAttenuationLoop /\ files = {}

\* C7 (amended): if a photon-energy column of the beam-power table is absent
\* from the requirements table, the run stops with a KeyError no later than
\* the attenuation loop and no output file is written; a column that only the
\* requirements table has raises nothing: with a Power column and every
\* beam-power column present the run never fails, and ends with both files.
\* A run stops only when it is done or has raised: everywhere else the next
\* statement can execute (in a loop, the loop variable names a column).
C7_MissingRequirementColumnFails ==
  /\ pc \in {"create_att", "create_rate", "plot", "att_loop", "clamp", "round2",
             "one_minus", "rate_loop", "round0", "prefix", "store_att",
             "store_rate", "done", "error"}
  /\ pc \in {"att_loop", "rate_loop"} => col \in 1..Len(Columns(max_pulse))
  /\ ~(DOMAIN max_pulse \subseteq DOMAIN max_reqs) =>
       ~PastAttenuationLoop /\ files = {}
  /\ pc = "error" => files = {}
  /\ (DOMAIN max_pulse \subseteq DOMAIN max_reqs /\ "Power" \in DOMAIN max_reqs) =>
       /\ pc # "error"
       /\ pc = "done" =>
            files = {<<filename_prefix, "_min_attenuation.csv">>,
                     <<filename_prefix, "_max_rep_rate.csv">>}

\* the KeyError is raised at the second column, the first already computed
C7_Witness ==
  /\ pc = "error"
  /\ "Power" \in DOMAIN max_reqs
  /\ DOMAIN max_pulse = Energies
  /\ "8.0" \in DOMAIN max_reqs
  /\ "9.0" \notin DOMAIN max_reqs
  /\ col = 2
  /\ files = {}

---------------------------------------------------------------------------
(* C8 *)

\* C8 (as claimed): after round(0) every cell of max_pulse_rate, cells with
\* predicted pulse energy 0 included, is a finite integer.
C8_RateFiniteIntegerEverywhere ==
  RateDone =>
    \A cb \in Cells : IsFin(Rate(cb)) /\ Rate(cb).n % Rate(cb).d = 0

\* C8 (amended): after round(0) every cell of max_pulse_rate whose predicted
\* pulse energy is greater than 0 is a finite integer; a cell whose predicted
\* pulse energy is 0 holds +inf or nan.
C8_RateFiniteIntegerForPositivePulse ==
  RateDone =>
    \A cb \in Cells :
      IF PulseUJ(cb) > 0
      THEN IsFin(Rate(cb)) /\ Rate(cb).n % Rate(cb).d = 0
      ELSE Rate(cb).k \in {"pinf", "nan"}

\* a non-integral quotient (5 / 0.012 = 416.67) has been rounded
C8_Witness ==
  /\ RateDone
  /\ \E cb \in Cells :
       /\ PulseUJ(cb) = 12000
       /\ max_reqs["Power"] = 5
       /\ Rate(cb) = Fin(417, 1)

---------------------------------------------------------------------------
(* C9 *)

\* power / (pulse / 1000000) - att as the fraction X / Y, for pulse > 0 and a
\* finite att: X = power * 1000000 * att.d - att.n * pulse, Y = pulse * att.d
RateNumerator(cb) ==
  max_reqs["Power"] * 1000000 * Att(cb).d - Att(cb).n * PulseUJ(cb)

RateDenominator(cb) == PulseUJ(cb) * Att(cb).d

---------------------------------------------------------------------------
(* C10 *)

\* the transmission in hundredths that a finished attenuation value stands for
TransmissionHundredths(a) == 100 - (a.n * 100) \div a.d

\* m hundredths is round2(min(req / (pulse / 1000), 1.0)), for pulse > 0
IsRoundedClampedTransmission(m, req, pulse) ==
  IF req * 1000 >= pulse
  THEN m = 100
  ELSE NearestEven(m, req * 100000, pulse)

====
